---- MODULE Spec2Model ----
(***************************************************************************)
(* Model of the streaming gesture-classification pipeline of the           *)
(* sign-language demo: the ref-based SignLanguageProvider                  *)
(* (src/src/context/SignLanguageContext.tsx, second provider, lines        *)
(* 187-367) together with SignLanguageDetector                             *)
(* (src/src/utils/SignLanguageDetector.ts).                                *)
(*                                                                         *)
(* Conventions.                                                            *)
(*  - Time is in milliseconds (Date.now()).                                *)
(*  - Confidences and probabilities are fixed-point percentages:           *)
(*    0.5 is 50, 0.95 is 95.  A product is rounded to the nearest grid     *)
(*    point, as a floating-point product is rounded to the nearest         *)
(*    representable value.                                                 *)
(*  - A React callback sees the state of the render that created it.       *)
(*    `rendered` is the render whose callbacks the consumers currently     *)
(*    hold; it follows the state through the Render action.                *)
(*  - An await on an external completion (MediaPipe results,               *)
(*    prediction.data()) is a suspension point: the call is parked in      *)
(*    `calls` and resumed by a later action.  Code between two such        *)
(*    points runs in one action.                                           *)
(***************************************************************************)
EXTENDS Integers, Sequences, FiniteSets, TLC

\* ---------------------------------------------------------------- constants
THROTTLE_MS == 200
DEDUP_MS == 2000
MAX_HISTORY == 50
SEQUENCE_LENGTH == 30
MIN_CONFIDENCE == 50
CLEAR_THRESHOLD == 40
DECAY_PERCENT == 95
DETECTOR_THRESHOLD == 60
PROGRESS_CAP == 90
PROGRESS_DONE == 100

\* ------------------------------------------------------------------- bounds
\* Date.now() when the explored behaviour begins.
T0 == 100000
\* Length of the explored time window, in ms.
Horizon == 2000
\* Largest number of frames processFrame accepts in the explored window.
MaxFrames == 2
\* Clock advances offered to the environment.
TickSteps == {1000}
\* Increments of the simulated progress timer (Math.random() * 10, percent).
ProgressSteps == {0, 7}
\* Outputs of the classifier: probability of label 0, the rest goes to label 1.
Probabilities == {10, 50, 90}
\* What a submitted frame shows.
FrameKinds == {"hand", "nohand", "bad"}

NULL == "null"

labelMap == <<"hello", "thankyou">>

VARIABLES
  \* useState of SignLanguageProvider (SignLanguageContext.tsx:188-193)
  isDetecting, currentPrediction, confidence, predictionHistory,
  modelLoaded, modelLoadingProgress,
  \* useRef of SignLanguageProvider (195-197); detectorRef is TRUE when the
  \* detector is installed
  detectorRef, lastProcessTimeRef, processingRef,
  \* the init effect (200-254): its isMounted flag, the state of the promise
  \* of newDetector.initialize(), whether the progress timer is running
  isMounted, initialize, progressInterval,
  \* fields of SignLanguageDetector (SignLanguageDetector.ts:9-16); model and
  \* hands are TRUE when set
  isInitialized, model, hands, sequenceBuffer,
  \* MediaPipe: the call whose listener hands.onResults registered last, and
  \* the images sent and not yet reported on (SignLanguageDetector.ts:211-228)
  onResults, sent,
  \* processFrame calls waiting at `await detectGesture`, the number of
  \* frames accepted so far, and the waiting calls during which
  \* stopDetection was called
  calls, accepted, cancelled,
  \* the render whose callbacks the consumers hold, Date.now(), and the
  \* operation that ran last
  rendered, now, lastOp,
  \* fields of the simulated SignLanguageDetector (unnamed/part_008:7-13) and
  \* the locals and return value of its last detectGesture call
  isProcessing, lastPredictionTime, gestureSequence, detection,
  \* the classifier output last converted into a result, and the state of
  \* the capture component (WebcamFeed)
  classified, webcam

vars == <<isDetecting, currentPrediction, confidence, predictionHistory,
          modelLoaded, modelLoadingProgress,
          detectorRef, lastProcessTimeRef, processingRef,
          isMounted, initialize, progressInterval,
          isInitialized, model, hands, sequenceBuffer,
          onResults, sent,
          calls, accepted, cancelled, rendered, now, lastOp,
          isProcessing, lastPredictionTime, gestureSequence, detection,
          classified, webcam>>

providerState == <<isDetecting, currentPrediction, confidence, predictionHistory,
                   modelLoaded, modelLoadingProgress>>
providerRefs == <<detectorRef, lastProcessTimeRef, processingRef>>
initVars == <<isMounted, initialize, progressInterval>>
detectorVars == <<isInitialized, model, hands, sequenceBuffer, onResults, sent>>
pipelineVars == <<providerState, providerRefs, initVars, detectorVars,
                  calls, accepted, cancelled, rendered, lastOp>>
simulated == <<isProcessing, lastPredictionTime, gestureSequence, detection>>

\* ------------------------------------------------------------------ helpers
Max(a, b) == IF a >= b THEN a ELSE b
Min(a, b) == IF a <= b THEN a ELSE b

\* Mutant of Scale: the factor is mirrored about 1 (1.05 for 0.95).
ScaleUp(x, p) == (x * (200 - p) + 50) \div 100

\* x * p / 100 rounded to the nearest grid point.
Scale(x, p) == (x * p + 50) \div 100

\* Mutant of SliceLast: keeps the first n elements, Array.prototype.slice(0, n).
SliceFirst(s, n) == IF Len(s) <= n THEN s ELSE SubSeq(s, 1, n)

\* Array.prototype.slice(-n)
SliceLast(s, n) == IF Len(s) <= n THEN s ELSE SubSeq(s, Len(s) - n + 1, Len(s))

\* Array.prototype.shift()
Shift(s) == SubSeq(s, 2, Len(s))

\* The record kept in lastOp: the operation that ran last, the frame it was
\* about (0 when none), whether it took effect (for "finish": whether
\* detectGesture returned a result), whether extraction or
\* classification failed in it and, for startDetection, whether isDetecting
\* held when it was called.
Op(name, seq, flag, error) ==
  [op |-> name, seq |-> seq, flag |-> flag, error |-> error,
   detecting |-> name = "startDetection" /\ isDetecting]

\* A state setter of useState: React drops the update once the provider is
\* unmounted.
SetState(new, old) == IF isMounted THEN new ELSE old

Snapshot(d, m, c) == [isDetecting |-> d, modelLoaded |-> m, confidence |-> c]

\* ----------------------------------------------------------------- detector
\* A feature vector: LANDMARK_COUNT values extracted from one frame.  The
\* vector is identified by the frame it was extracted from; frames are
\* numbered in the order processFrame accepts them, the first frame of the
\* explored window being frame 1 (earlier frames have numbers below 1).
LANDMARK_COUNT == 42
\* Math.max(0, Math.min(1, x)), percent.
Clamp(x) == Max(0, Min(100, x))

\* The least and the greatest value extractMockLandmarks can compute before
\* clamping: 0.3 + 0.4 * sin(..) + (Math.random() - 0.5) * 0.1, percent.
MockLow == 30 - 40 - 5
MockHigh == 30 + 40 + 5

\* The vector extractMockLandmarks makes up: its length and the least and
\* the greatest of its values.
Landmarks(frame) ==
  [frame |-> frame, length |-> LANDMARK_COUNT,
   low |-> Clamp(MockLow), high |-> Clamp(MockHigh)]
NoLandmarks == [frame |-> 0, length |-> 0, low |-> 0, high |-> 0]

\* The least coordinate MediaPipe reports for a hand: negative when the hand
\* is partly outside the image.  The greatest is taken to be 0.9.
LowestCoordinates == {-5, 10}

\* The listener of extractMediaPipeLandmarks: the x and y of the 21
\* landmarks of the first hand as MediaPipe reports them, or null.
MediaPipeLandmarks(kind, frame, lowest) ==
  IF kind = "hand"
    THEN [frame |-> frame, length |-> LANDMARK_COUNT,
          low |-> lowest, high |-> 90]
    ELSE NoLandmarks

DetectionResult(g, c) == [gesture |-> g, confidence |-> c]

\* Mutant of NoResult: a default gesture is reported in place of null.
NoResultDefault == DetectionResult(labelMap[1], 90)

\* detectGesture returning null.
NoResult == DetectionResult(NULL, 0)

\* Mutant of MaxIndex: lastIndexOf for indexOf.
MaxIndexLast(data) ==
  CHOOSE i \in 1..Len(data) :
    /\ \A j \in 1..Len(data) : data[j] <= data[i]
    /\ \A j \in (i + 1)..Len(data) : data[j] < data[i]

\* predictionData.indexOf(Math.max(...predictionData)): the first index that
\* holds the largest value.
MaxIndex(data) ==
  CHOOSE i \in 1..Len(data) :
    /\ \A j \in 1..Len(data) : data[j] <= data[i]
    /\ \A j \in 1..(i - 1) : data[j] < data[i]

\* detectGesture after prediction.data() resolved with <<p0, 100 - p0>>.
Classify(p0) ==
  LET predictionData == <<p0, 100 - p0>>
      maxIndex == MaxIndex(predictionData)
      conf == predictionData[maxIndex]
  IN  IF conf > DETECTOR_THRESHOLD
        THEN DetectionResult(labelMap[maxIndex], conf)
        ELSE NoResult

\* Mutant of PushWindow: the length test is off by one.
PushWindowLate(buf, landmarks) ==
  LET pushed == Append(buf, landmarks)
  IN  IF Len(pushed) > SEQUENCE_LENGTH + 1 THEN SubSeq(pushed, 2, Len(pushed)) ELSE pushed

\* Mutant of PushWindow: the vector after the oldest is evicted.
PushWindowEvictsSecond(buf, landmarks) ==
  LET pushed == Append(buf, landmarks)
  IN  IF Len(pushed) > SEQUENCE_LENGTH
        THEN <<pushed[1]>> \o SubSeq(pushed, 3, Len(pushed)) ELSE pushed

\* sequenceBuffer.push(landmarks), then shift() while longer than the window.
PushWindow(buf, landmarks) ==
  LET pushed == Append(buf, landmarks)
  IN  IF Len(pushed) > SEQUENCE_LENGTH THEN Shift(pushed) ELSE pushed

\* Mutant of ExtractMock: a vector is made up for a frame without a hand.
ExtractMockAlways(kind, frame) ==
  IF kind # "bad" THEN Landmarks(frame) ELSE NoLandmarks

\* extractMockLandmarks / the outcome of a frame that needs no MediaPipe
\* round trip: a vector when enough skin-coloured pixels are seen, else null.
ExtractMock(kind, frame) ==
  IF kind = "hand" THEN Landmarks(frame) ELSE NoLandmarks

\* ----------------------------------------------------------------- provider
Prediction(g, c, t) == [gesture |-> g, confidence |-> c, timestamp |-> t]

\* Mutant of UpdateHistory: the duplicate test compares the gesture with the
\* oldest entry instead of the newest.
UpdateHistoryOldest(prev, newPrediction) ==
  IF /\ Len(prev) > 0
     /\ prev[1].gesture = newPrediction.gesture
     /\ newPrediction.timestamp - prev[Len(prev)].timestamp < DEDUP_MS
    THEN prev
    ELSE SliceLast(Append(prev, newPrediction), MAX_HISTORY)

\* Mutant of UpdateHistory: the new entry is put first.
UpdateHistoryPrepends(prev, newPrediction) ==
  IF /\ Len(prev) > 0
     /\ prev[Len(prev)].gesture = newPrediction.gesture
     /\ newPrediction.timestamp - prev[Len(prev)].timestamp < DEDUP_MS
    THEN prev
    ELSE SliceLast(<<newPrediction>> \o prev, MAX_HISTORY)

\* Mutant of UpdateHistory: an entry as old as the window is still a
\* duplicate.
UpdateHistoryStrict(prev, newPrediction) ==
  IF /\ Len(prev) > 0
     /\ prev[Len(prev)].gesture = newPrediction.gesture
     /\ newPrediction.timestamp - prev[Len(prev)].timestamp <= DEDUP_MS
    THEN prev
    ELSE SliceLast(Append(prev, newPrediction), MAX_HISTORY)

\* The updater passed to setPredictionHistory.
UpdateHistory(prev, newPrediction) ==
  IF /\ Len(prev) > 0
     /\ prev[Len(prev)].gesture = newPrediction.gesture
     /\ newPrediction.timestamp - prev[Len(prev)].timestamp < DEDUP_MS
    THEN prev
    ELSE SliceLast(Append(prev, newPrediction), MAX_HISTORY)

\* Mutant of Rejects: the throttle test is missing.
RejectsNoThrottle(cap) ==
  \/ ~detectorRef
  \/ ~cap.isDetecting
  \/ ~cap.modelLoaded
  \/ processingRef

\* Mutant of Rejects: the in-flight test is missing.
RejectsNoFlight(cap) ==
  \/ ~detectorRef
  \/ ~cap.isDetecting
  \/ ~cap.modelLoaded
  \/ now - lastProcessTimeRef < THROTTLE_MS

\* The early returns of processFrame, for a callback created by render `cap`.
Rejects(cap) ==
  \/ ~detectorRef
  \/ ~cap.isDetecting
  \/ ~cap.modelLoaded
  \/ processingRef
  \/ now - lastProcessTimeRef < THROTTLE_MS

\* The updater passed to setConfidence when a frame brought no detection.
Decay(prev) == Max(0, Scale(prev, DECAY_PERCENT))

\* processFrame after `await detectGesture` returned `result`, in the call
\* whose callback was created by a render with call.isDetecting and
\* call.confidence: the new <<currentPrediction, confidence, History>>.
ApplyResult(call, result) ==
  IF ~call.isDetecting
    THEN [prediction |-> currentPrediction, confidence |-> confidence,
          history |-> predictionHistory]
  ELSE IF result.gesture # NULL /\ result.confidence > MIN_CONFIDENCE
    THEN [prediction |-> result.gesture, confidence |-> result.confidence,
          history |->
            IF result.confidence > MIN_CONFIDENCE
              THEN UpdateHistory(predictionHistory,
                     Prediction(result.gesture, result.confidence, now))
              ELSE predictionHistory]
  ELSE [prediction |-> IF call.confidence < CLEAR_THRESHOLD
                         THEN NULL ELSE currentPrediction,
        confidence |-> Decay(confidence),
        history |-> predictionHistory]

\* Mutant of Finish: no finally block, the flag is released on the result
\* path only.
FinishNoFinally(call, result) ==
  LET r == ApplyResult(call, result)
  IN  /\ currentPrediction' = SetState(r.prediction, currentPrediction)
      /\ confidence' = SetState(r.confidence, confidence)
      /\ predictionHistory' = SetState(r.history, predictionHistory)
      /\ processingRef' = (result.gesture = NULL)

\* The rest of processFrame once detectGesture has returned: apply the
\* result, then the finally block.
Finish(call, result) ==
  LET r == ApplyResult(call, result)
  IN  /\ currentPrediction' = SetState(r.prediction, currentPrediction)
      /\ confidence' = SetState(r.confidence, confidence)
      /\ predictionHistory' = SetState(r.history, predictionHistory)
      /\ processingRef' = FALSE

\* detectGesture from the point where extractLandmarks has returned
\* `landmarks`, up to its return or its next await.  `throws` says whether
\* building the tensor or model.predict throws; `parked` is the value
\* processingRef has while the call waits; `others` are the other waiting
\* calls.
Continue(call, landmarks, throws, parked, others) ==
  IF landmarks.length = 0
    THEN /\ sequenceBuffer' = sequenceBuffer
         /\ calls' = others
         /\ cancelled' = cancelled \ {call.seq}
         /\ Finish(call, NoResult)
    ELSE LET buf == PushWindow(sequenceBuffer, landmarks)
         IN  /\ sequenceBuffer' = buf
             /\ IF Len(buf) < SEQUENCE_LENGTH \/ throws
                  THEN /\ calls' = others
                       /\ cancelled' = cancelled \ {call.seq}
                       /\ Finish(call, NoResult)
                  ELSE /\ calls' = others \cup {[call EXCEPT !.stage = "predict"]}
                       /\ cancelled' = cancelled
                       /\ processingRef' = parked
                       /\ UNCHANGED <<currentPrediction, confidence, predictionHistory>>

Call(seq, cap, stage) ==
  [seq |-> seq, isDetecting |-> cap.isDetecting, confidence |-> cap.confidence,
   stage |-> stage]

\* -------------------------------------------------------------------- state
\* No classifier output has been converted yet.
NotClassified == [predictionData |-> <<>>, maxIndex |-> 0, result |-> NoResult]

\* WebcamFeed as mounted: no stream, no getUserMedia call pending, no track
\* running, and its effects have run for a provider that is not detecting.
\* `made` counts the streams getUserMedia was asked for, `requests` those
\* asked for since the effect last ran with isDetecting false.
InitWebcam ==
  [stream |-> 0, pending |-> {}, tracks |-> {}, made |-> 0, requests |-> 0,
   deps |-> [rendered |-> Snapshot(FALSE, FALSE, 0), stream |-> 0]]

\* The simulated detector as constructed (unnamed/part_008:7-13); no
\* detectGesture call has been made.
NoDetection ==
  [kind |-> "none", gestureIndex |-> -1, confidence |-> 0, result |-> NoResult]
InitSimulated ==
  /\ isProcessing = FALSE
  /\ lastPredictionTime = 0
  /\ gestureSequence = <<>>
  /\ detection = NoDetection

\* The provider right after it is mounted: initializeDetector has started
\* the progress timer and awaits newDetector.initialize().
InitConstructed ==
  /\ InitSimulated
  /\ classified = NotClassified
  /\ webcam = InitWebcam
  /\ isDetecting = FALSE
  /\ currentPrediction = NULL
  /\ confidence = 0
  /\ predictionHistory = <<>>
  /\ modelLoaded = FALSE
  /\ modelLoadingProgress = 0
  /\ detectorRef = FALSE
  /\ lastProcessTimeRef = 0
  /\ processingRef = FALSE
  /\ isMounted = TRUE
  /\ initialize = "pending"
  /\ progressInterval = TRUE
  /\ isInitialized = FALSE
  /\ model = FALSE
  /\ hands = FALSE
  /\ sequenceBuffer = <<>>
  /\ onResults = 0
  /\ sent = <<>>
  /\ calls = {}
  /\ accepted = 0
  /\ cancelled = {}
  /\ rendered = Snapshot(FALSE, FALSE, 0)
  /\ now = T0
  /\ lastOp = Op("mount", 0, TRUE, FALSE)

\* Number of hand-present frames after which the window is one short of full.
WarmFrames == SEQUENCE_LENGTH - 1
\* Number of History entries that is one short of the capacity.
LongEntries == MAX_HISTORY - 1

\* The provider after a successful initialization, startDetection and
\* WarmFrames hand-present frames accepted THROTTLE_MS apart, the last one
\* THROTTLE_MS ago: every detectGesture returned null for want of a full
\* window.
InitWarm ==
  /\ InitSimulated
  /\ classified = NotClassified
  /\ webcam = InitWebcam
  /\ isDetecting = TRUE
  /\ currentPrediction = NULL
  /\ confidence = 0
  /\ predictionHistory = <<>>
  /\ modelLoaded = TRUE
  /\ modelLoadingProgress = PROGRESS_DONE
  /\ detectorRef = TRUE
  /\ lastProcessTimeRef = T0 - THROTTLE_MS
  /\ processingRef = FALSE
  /\ isMounted = TRUE
  /\ initialize = "resolved"
  /\ progressInterval = FALSE
  /\ isInitialized = TRUE
  /\ model = TRUE
  /\ hands \in BOOLEAN
  /\ sequenceBuffer = [i \in 1..WarmFrames |-> Landmarks(i - WarmFrames)]
  /\ onResults = 0
  /\ sent = <<>>
  /\ calls = {}
  /\ accepted = 0
  /\ cancelled = {}
  /\ rendered = Snapshot(TRUE, TRUE, 0)
  /\ now = T0
  /\ lastOp = Op("processFrame", 0, TRUE, FALSE)

\* The provider after LongEntries further frames, accepted THROTTLE_MS apart,
\* were classified alternately hello and thankyou with confidence 0.9.
InitLong ==
  /\ InitSimulated
  /\ classified = NotClassified
  /\ webcam = InitWebcam
  /\ isDetecting = TRUE
  /\ currentPrediction = labelMap[2 - (LongEntries % 2)]
  /\ confidence = 90
  /\ predictionHistory =
       [k \in 1..LongEntries |->
          Prediction(labelMap[2 - (k % 2)], 90,
                     T0 - THROTTLE_MS * (LongEntries + 1 - k))]
  /\ modelLoaded = TRUE
  /\ modelLoadingProgress = PROGRESS_DONE
  /\ detectorRef = TRUE
  /\ lastProcessTimeRef = T0 - THROTTLE_MS
  /\ processingRef = FALSE
  /\ isMounted = TRUE
  /\ initialize = "resolved"
  /\ progressInterval = FALSE
  /\ isInitialized = TRUE
  /\ model = TRUE
  /\ hands \in BOOLEAN
  /\ sequenceBuffer = [i \in 1..SEQUENCE_LENGTH |-> Landmarks(i - SEQUENCE_LENGTH)]
  /\ onResults = 0
  /\ sent = <<>>
  /\ calls = {}
  /\ accepted = 0
  /\ cancelled = {}
  /\ rendered = Snapshot(TRUE, TRUE, 90)
  /\ now = T0
  /\ lastOp = Op("finish", 0, TRUE, FALSE)

Init == InitConstructed \/ InitWarm \/ InitLong

\* ------------------------------------------------------------------ actions
\* Date.now() advances.
Tick ==
  \E d \in TickSteps :
    /\ now + d <= T0 + Horizon
    /\ now' = now + d
    /\ UNCHANGED <<providerState, providerRefs, initVars, detectorVars,
                   calls, accepted, cancelled, rendered, lastOp, simulated, classified, webcam>>

\* React re-renders the mounted provider: the consumers get callbacks that
\* see the current state.
Render ==
  /\ isMounted
  /\ rendered # Snapshot(isDetecting, modelLoaded, confidence)
  /\ rendered' = Snapshot(isDetecting, modelLoaded, confidence)
  /\ UNCHANGED <<providerState, providerRefs, initVars, detectorVars,
                 calls, accepted, cancelled, now, lastOp, simulated, classified, webcam>>

\* The callback of the progress timer.
ProgressTick ==
  \E r \in ProgressSteps :
    /\ progressInterval
    /\ IF ~isMounted
         THEN /\ progressInterval' = FALSE
              /\ modelLoadingProgress' = modelLoadingProgress
         ELSE IF modelLoadingProgress >= PROGRESS_CAP
           THEN /\ progressInterval' = FALSE
                /\ modelLoadingProgress' = PROGRESS_CAP
           ELSE /\ progressInterval' = TRUE
                /\ modelLoadingProgress' = modelLoadingProgress + r
    /\ lastOp' = Op("progress", 0, isMounted, FALSE)
    /\ UNCHANGED <<isDetecting, currentPrediction, confidence, predictionHistory,
                   modelLoaded, providerRefs, isMounted, initialize, detectorVars,
                   calls, accepted, cancelled, rendered, now, simulated, classified, webcam>>

\* SignLanguageDetector.dispose
Dispose ==
  /\ model' = FALSE
  /\ hands' = FALSE
  /\ sequenceBuffer' = <<>>
  /\ isInitialized' = FALSE

\* Mutant of InitializeResolves: the progress timer is left running.
InitializeResolvesKeepsTimer ==
  \E h \in BOOLEAN :
    /\ initialize = "pending"
    /\ initialize' = "resolved"
    /\ IF isMounted
         THEN /\ isInitialized' = TRUE
              /\ model' = TRUE
              /\ hands' = h
              /\ sequenceBuffer' = sequenceBuffer
              /\ detectorRef' = TRUE
              /\ modelLoaded' = TRUE
              /\ modelLoadingProgress' = PROGRESS_DONE
         ELSE /\ Dispose
              /\ UNCHANGED <<detectorRef, modelLoaded, modelLoadingProgress>>
    /\ progressInterval' = progressInterval
    /\ lastOp' = Op("initialized", 0, isMounted, FALSE)
    /\ UNCHANGED <<isDetecting, currentPrediction, confidence, predictionHistory,
                   lastProcessTimeRef, processingRef, isMounted, onResults,
                   sent, calls, accepted, cancelled, rendered, now, simulated, classified, webcam>>

\* Mutant of InitializeResolves: the isMounted test is missing, the detector
\* is installed whether the provider is mounted or not.
InitializeResolvesInstalls ==
  \E h \in BOOLEAN :
    /\ initialize = "pending"
    /\ initialize' = "resolved"
    /\ isInitialized' = TRUE
    /\ model' = TRUE
    /\ hands' = h
    /\ sequenceBuffer' = sequenceBuffer
    /\ detectorRef' = TRUE
    /\ modelLoaded' = SetState(TRUE, modelLoaded)
    /\ modelLoadingProgress' = SetState(PROGRESS_DONE, modelLoadingProgress)
    /\ progressInterval' = FALSE
    /\ lastOp' = Op("initialized", 0, isMounted, FALSE)
    /\ UNCHANGED <<isDetecting, currentPrediction, confidence, predictionHistory,
                   lastProcessTimeRef, processingRef, isMounted, onResults,
                   sent, calls, accepted, cancelled, rendered, now, simulated, classified, webcam>>

\* newDetector.initialize() resolves; MediaPipe was imported (h) or not.
\* The detector is installed if the provider is still mounted, else disposed.
InitializeResolves ==
  \E h \in BOOLEAN :
    /\ initialize = "pending"
    /\ initialize' = "resolved"
    /\ IF isMounted
         THEN /\ isInitialized' = TRUE
              /\ model' = TRUE
              /\ hands' = h
              /\ sequenceBuffer' = sequenceBuffer
              /\ detectorRef' = TRUE
              /\ modelLoaded' = TRUE
              /\ modelLoadingProgress' = PROGRESS_DONE
         ELSE /\ Dispose
              /\ UNCHANGED <<detectorRef, modelLoaded, modelLoadingProgress>>
    /\ progressInterval' = FALSE
    /\ lastOp' = Op("initialized", 0, isMounted, FALSE)
    /\ UNCHANGED <<isDetecting, currentPrediction, confidence, predictionHistory,
                   lastProcessTimeRef, processingRef, isMounted, onResults,
                   sent, calls, accepted, cancelled, rendered, now, simulated, classified, webcam>>

\* Mutant of InitializeRejects: the detector that failed to initialize is
\* installed all the same.
InitializeRejectsInstalls ==
  /\ initialize = "pending"
  /\ initialize' = "rejected"
  /\ modelLoadingProgress' = IF isMounted THEN 0 ELSE modelLoadingProgress
  /\ detectorRef' = isMounted
  /\ modelLoaded' = SetState(TRUE, modelLoaded)
  /\ lastOp' = Op("initialized", 0, FALSE, TRUE)
  /\ UNCHANGED <<isDetecting, currentPrediction, confidence, predictionHistory,
                 lastProcessTimeRef, processingRef, isMounted, progressInterval,
                 detectorVars, calls, accepted, cancelled, rendered, now, simulated, classified, webcam>>

\* newDetector.initialize() rejects: the catch block of initializeDetector.
InitializeRejects ==
  /\ initialize = "pending"
  /\ initialize' = "rejected"
  /\ modelLoadingProgress' = IF isMounted THEN 0 ELSE modelLoadingProgress
  /\ lastOp' = Op("initialized", 0, FALSE, TRUE)
  /\ UNCHANGED <<isDetecting, currentPrediction, confidence, predictionHistory,
                 modelLoaded, providerRefs, isMounted, progressInterval,
                 detectorVars, calls, accepted, cancelled, rendered, now, simulated, classified, webcam>>

\* The cleanup of the provider's effect, run when the provider unmounts.
Unmount ==
  /\ isMounted
  /\ isMounted' = FALSE
  /\ IF detectorRef
       THEN Dispose
       ELSE UNCHANGED <<model, hands, sequenceBuffer, isInitialized>>
  /\ detectorRef' = FALSE
  /\ lastOp' = Op("unmount", 0, TRUE, FALSE)
  /\ UNCHANGED <<providerState, lastProcessTimeRef, processingRef, initialize,
                 progressInterval, onResults, sent, calls, accepted, cancelled,
                 rendered, now, simulated, classified, webcam>>

\* Mutant of StartDetection: the readiness test is missing.
StartDetectionUnguarded ==
  /\ isDetecting' = SetState(TRUE, isDetecting)
  /\ lastOp' = Op("startDetection", 0, rendered.modelLoaded /\ detectorRef, FALSE)
  /\ UNCHANGED <<currentPrediction, confidence, predictionHistory, modelLoaded,
                 modelLoadingProgress, providerRefs, initVars, detectorVars,
                 calls, accepted, cancelled, rendered, now, simulated, classified, webcam>>

\* Mutant of StartDetection: every accepted call begins a new session.
StartDetectionRestarts ==
  /\ IF rendered.modelLoaded /\ detectorRef
       THEN /\ isDetecting' = SetState(TRUE, isDetecting)
            /\ currentPrediction' = SetState(NULL, currentPrediction)
            /\ confidence' = SetState(0, confidence)
            /\ processingRef' = FALSE
       ELSE UNCHANGED <<isDetecting, currentPrediction, confidence, processingRef>>
  /\ lastOp' = Op("startDetection", 0, rendered.modelLoaded /\ detectorRef, FALSE)
  /\ UNCHANGED <<predictionHistory, modelLoaded, modelLoadingProgress,
                 detectorRef, lastProcessTimeRef, initVars, detectorVars,
                 calls, accepted, cancelled, rendered, now, simulated, classified, webcam>>

StartDetection ==
  /\ IF rendered.modelLoaded /\ detectorRef
       THEN isDetecting' = SetState(TRUE, isDetecting)
       ELSE isDetecting' = isDetecting
  /\ lastOp' = Op("startDetection", 0, rendered.modelLoaded /\ detectorRef, FALSE)
  /\ UNCHANGED <<currentPrediction, confidence, predictionHistory, modelLoaded,
                 modelLoadingProgress, providerRefs, initVars, detectorVars,
                 calls, accepted, cancelled, rendered, now, simulated, classified, webcam>>

\* Mutant of StopDetection: the History is cleared too.
StopDetectionClears ==
  /\ isDetecting' = SetState(FALSE, isDetecting)
  /\ currentPrediction' = SetState(NULL, currentPrediction)
  /\ confidence' = SetState(0, confidence)
  /\ predictionHistory' = SetState(<<>>, predictionHistory)
  /\ processingRef' = FALSE
  /\ cancelled' = cancelled \cup {c.seq : c \in calls}
  /\ lastOp' = Op("stopDetection", 0, TRUE, FALSE)
  /\ UNCHANGED <<modelLoaded, modelLoadingProgress,
                 detectorRef, lastProcessTimeRef, initVars, detectorVars,
                 calls, accepted, rendered, now, simulated, classified, webcam>>

StopDetection ==
  /\ isDetecting' = SetState(FALSE, isDetecting)
  /\ currentPrediction' = SetState(NULL, currentPrediction)
  /\ confidence' = SetState(0, confidence)
  /\ processingRef' = FALSE
  /\ cancelled' = cancelled \cup {c.seq : c \in calls}
  /\ lastOp' = Op("stopDetection", 0, TRUE, FALSE)
  /\ UNCHANGED <<predictionHistory, modelLoaded, modelLoadingProgress,
                 detectorRef, lastProcessTimeRef, initVars, detectorVars,
                 calls, accepted, rendered, now, simulated, classified, webcam>>

\* Mutant of CameraFails: the handler reports the error and leaves the
\* session as it is.
CameraFailsReportsOnly ==
  /\ rendered.isDetecting
  /\ lastOp' = Op("cameraFailed", 0, TRUE, TRUE)
  /\ UNCHANGED <<providerState, providerRefs, initVars, detectorVars,
                 calls, accepted, cancelled, rendered, now, simulated, classified, webcam>>

\* WebcamFeed: navigator.mediaDevices.getUserMedia, requested by the effect
\* of a render with isDetecting, rejects; the catch block of setupCamera
\* calls stopDetection().
CameraFails ==
  /\ rendered.isDetecting
  /\ isDetecting' = SetState(FALSE, isDetecting)
  /\ currentPrediction' = SetState(NULL, currentPrediction)
  /\ confidence' = SetState(0, confidence)
  /\ processingRef' = FALSE
  /\ cancelled' = cancelled \cup {c.seq : c \in calls}
  /\ lastOp' = Op("cameraFailed", 0, TRUE, TRUE)
  /\ UNCHANGED <<predictionHistory, modelLoaded, modelLoadingProgress,
                 detectorRef, lastProcessTimeRef, initVars, detectorVars,
                 calls, accepted, rendered, now, simulated, classified, webcam>>

\* Mutant of ClearHistory: the live tracking state is reset with the History.
ClearHistoryResets ==
  /\ predictionHistory' = SetState(<<>>, predictionHistory)
  /\ currentPrediction' = SetState(NULL, currentPrediction)
  /\ confidence' = SetState(0, confidence)
  /\ lastOp' = Op("clearHistory", 0, TRUE, FALSE)
  /\ UNCHANGED <<isDetecting, modelLoaded,
                 modelLoadingProgress, providerRefs, initVars, detectorVars,
                 calls, accepted, cancelled, rendered, now, simulated, classified, webcam>>

ClearHistory ==
  /\ predictionHistory' = SetState(<<>>, predictionHistory)
  /\ lastOp' = Op("clearHistory", 0, TRUE, FALSE)
  /\ UNCHANGED <<isDetecting, currentPrediction, confidence, modelLoaded,
                 modelLoadingProgress, providerRefs, initVars, detectorVars,
                 calls, accepted, cancelled, rendered, now, simulated, classified, webcam>>

\* The capture loop submits a frame through the callback it holds.  The
\* frame is dropped by an early return, or accepted: then detectGesture runs
\* to its return or to its first await.  A "bad" frame is one whose canvas
\* makes extraction throw; `throws` says whether building the input tensor or
\* model.predict throws.
ProcessFrameOf(kind, throws) ==
    LET seq == accepted + 1
        call == Call(seq, rendered, "extract")
        failed == \/ kind = "bad"
                  \/ /\ kind = "hand"
                     /\ throws
                     /\ Len(sequenceBuffer') >= SEQUENCE_LENGTH
    IN
    IF Rejects(rendered)
      THEN /\ lastOp' = Op("processFrame", 0, FALSE, FALSE)
           /\ UNCHANGED <<providerState, providerRefs, initVars, detectorVars,
                          calls, accepted, cancelled, rendered, now, simulated, classified, webcam>>
      ELSE /\ accepted < MaxFrames
           /\ accepted' = seq
           /\ lastProcessTimeRef' = now
           /\ UNCHANGED <<isDetecting, modelLoaded, modelLoadingProgress,
                          detectorRef, initVars, isInitialized, model, hands,
                          rendered, now, simulated, classified, webcam>>
           /\ IF ~isInitialized \/ ~model
                THEN /\ Finish(call, NoResult)
                     /\ lastOp' = Op("processFrame", seq, TRUE, FALSE)
                     /\ UNCHANGED <<sequenceBuffer, onResults, sent, calls,
                                    cancelled>>
              ELSE IF hands /\ kind # "bad"
                THEN /\ onResults' = seq
                     /\ sent' = Append(sent, [seq |-> seq, kind |-> kind])
                     /\ calls' = calls \cup {call}
                     /\ processingRef' = TRUE
                     /\ lastOp' = Op("processFrame", seq, TRUE, FALSE)
                     /\ UNCHANGED <<currentPrediction, confidence,
                                    predictionHistory, sequenceBuffer, cancelled>>
              ELSE /\ Continue(call, ExtractMock(kind, seq), throws, TRUE, calls)
                   /\ lastOp' = Op("processFrame", seq, TRUE, failed)
                   /\ UNCHANGED <<onResults, sent>>

\* processFrame called with some frame.
ProcessFrame ==
  \E kind \in FrameKinds, throws \in BOOLEAN : ProcessFrameOf(kind, throws)

\* MediaPipe reports the results of the oldest image sent to it by invoking
\* the listener registered last.  The listener resolves the promise of the
\* call that registered it; resolving a settled promise does nothing.
HandsResults ==
  \E throws \in BOOLEAN, lowest \in LowestCoordinates :
    /\ sent # <<>>
    /\ sent' = Tail(sent)
    /\ UNCHANGED <<isDetecting, modelLoaded, modelLoadingProgress, detectorRef,
                   lastProcessTimeRef, initVars, isInitialized, model, hands,
                   onResults, accepted, rendered, now, simulated, classified, webcam>>
    /\ IF \E c \in calls : c.seq = onResults /\ c.stage = "extract"
         THEN LET c == CHOOSE c \in calls : c.seq = onResults /\ c.stage = "extract"
                  landmarks == MediaPipeLandmarks(Head(sent).kind,
                                                  Head(sent).seq, lowest)
              IN  /\ Continue(c, landmarks, throws, processingRef, calls \ {c})
                  /\ lastOp' = Op("extracted", c.seq, TRUE,
                                  /\ landmarks.length # 0
                                  /\ throws
                                  /\ Len(sequenceBuffer') >= SEQUENCE_LENGTH)
         ELSE /\ lastOp' = Op("extracted", 0, FALSE, FALSE)
              /\ UNCHANGED <<currentPrediction, confidence, predictionHistory,
                             processingRef, sequenceBuffer, calls, cancelled>>

\* MediaPipe never reports on the oldest image sent to it: hands.send
\* rejects (the promise it returns is neither awaited nor caught) or the
\* backend drops the image.  No listener is invoked.
HandsFails ==
  /\ sent # <<>>
  /\ sent' = Tail(sent)
  /\ lastOp' = Op("sendFailed", Head(sent).seq, FALSE, TRUE)
  /\ UNCHANGED <<providerState, providerRefs, initVars, isInitialized, model,
                 hands, sequenceBuffer, onResults, calls, accepted, cancelled,
                 rendered, now, simulated, classified, webcam>>

\* prediction.data() settles for a waiting call: detectGesture returns the
\* classification (or null from its catch block when data() rejected) and
\* processFrame applies it.
PredictionSettles ==
  \E c \in calls, p0 \in Probabilities, rejects \in BOOLEAN :
    LET result == IF rejects THEN NoResult ELSE Classify(p0)
    IN
    /\ c.stage = "predict"
    /\ calls' = calls \ {c}
    /\ cancelled' = cancelled \ {c.seq}
    /\ Finish(c, result)
    /\ lastOp' = Op("finish", c.seq, result.gesture # NULL, rejects)
    /\ UNCHANGED <<isDetecting, modelLoaded, modelLoadingProgress, detectorRef,
                   lastProcessTimeRef, initVars, detectorVars, accepted,
                   rendered, now, simulated, classified, webcam>>

Next ==
  \/ Tick
  \/ Render
  \/ ProgressTick
  \/ InitializeResolves
  \/ InitializeRejects
  \/ Unmount
  \/ StartDetection
  \/ StopDetection
  \/ CameraFails
  \/ ClearHistory
  \/ ProcessFrame
  \/ HandsResults
  \/ HandsFails
  \/ PredictionSettles

Spec == Init /\ [][Next]_vars

\* ------------------------------------------------------- the decay scenario
\* Largest number of consecutive frames without a detection that the
\* scenario starts after.
MaxDecays == 41

\* Decay applied n times to the confidence c; the n applications are split
\* in two halves.
DecayTimes[c \in Int, n \in Nat] ==
  IF n = 0 THEN c
  ELSE IF n = 1 THEN Decay(c)
  ELSE DecayTimes[DecayTimes[c, n \div 2], n - (n \div 2)]

\* The confidence k frames without a detection after a classification with
\* confidence 0.9.
Decayed(k) == DecayTimes[90, k]

\* The provider of a running session, k frames without a hand after a frame
\* classified hello with confidence 0.9; the frames were accepted THROTTLE_MS
\* apart, the last one THROTTLE_MS ago, each through the callback of the
\* render that followed the frame before it.  The label was cleared by the
\* first of these frames whose callback saw a confidence below
\* CLEAR_THRESHOLD.
InitDecayed ==
  \E k \in 0..MaxDecays :
    /\ InitSimulated
    /\ classified = NotClassified
    /\ webcam = InitWebcam
    /\ isDetecting = TRUE
    /\ currentPrediction =
         IF \E j \in 0..(k - 1) : Decayed(j) < CLEAR_THRESHOLD
           THEN NULL ELSE labelMap[1]
    /\ confidence = Decayed(k)
    /\ predictionHistory =
         <<Prediction(labelMap[1], 90, T0 - THROTTLE_MS * (k + 1))>>
    /\ modelLoaded = TRUE
    /\ modelLoadingProgress = PROGRESS_DONE
    /\ detectorRef = TRUE
    /\ lastProcessTimeRef = T0 - THROTTLE_MS
    /\ processingRef = FALSE
    /\ isMounted = TRUE
    /\ initialize = "resolved"
    /\ progressInterval = FALSE
    /\ isInitialized = TRUE
    /\ model = TRUE
    /\ hands \in BOOLEAN
    /\ sequenceBuffer = [i \in 1..SEQUENCE_LENGTH |-> Landmarks(i - SEQUENCE_LENGTH)]
    /\ onResults = 0
    /\ sent = <<>>
    /\ calls = {}
    /\ accepted = 0
    /\ cancelled = {}
    /\ rendered = Snapshot(TRUE, TRUE, Decayed(k))
    /\ now = T0
    /\ lastOp = Op("processFrame", 0, TRUE, FALSE)

\* The running session: time passes, the provider re-renders, frames are
\* submitted and their extractions and classifications complete.
DecayNext ==
  \/ Tick
  \/ Render
  \/ ProcessFrame
  \/ HandsResults
  \/ PredictionSettles

DecaySpec == InitDecayed /\ [][DecayNext]_vars

\* ---------------------------------------------------------------- camera
\* The capture component.  Streams are numbered in the order getUserMedia is
\* asked for them, 0 standing for null; at most MaxStreams are asked for.
MaxStreams == 3

\* The dependencies of the camera effect in the current render: the context
\* value (isDetecting, processFrame) and the stream.
WebcamDeps == [rendered |-> rendered, stream |-> webcam.stream]

\* WebcamFeed.tsx: the effects that run after a render in which isDetecting,
\* processFrame or stream changed.  The cleanup of the [stream] effect stops
\* the tracks of the stream of the previous render; setupCamera then stops
\* and forgets the stream when not detecting, and otherwise calls
\* getUserMedia.
WebcamEffect ==
  LET cleaned == IF webcam.deps.stream # webcam.stream
                   THEN webcam.tracks \ {webcam.deps.stream}
                   ELSE webcam.tracks
  IN
  /\ isMounted
  /\ webcam.deps # WebcamDeps
  /\ rendered.isDetecting => webcam.made < MaxStreams
  /\ webcam' =
       IF ~rendered.isDetecting
         THEN [webcam EXCEPT !.deps = WebcamDeps,
                             !.tracks = cleaned \ {webcam.stream},
                             !.stream = 0,
                             !.requests = 0]
         ELSE [webcam EXCEPT !.deps = WebcamDeps,
                             !.tracks = cleaned,
                             !.pending = @ \cup {webcam.made + 1},
                             !.made = @ + 1,
                             !.requests = @ + 1]
  /\ UNCHANGED <<pipelineVars, now, simulated, classified>>

\* WebcamFeed.tsx: getUserMedia resolves with a stream, which setStream
\* stores.
GetUserMediaResolves ==
  \E s \in webcam.pending :
    /\ webcam' = [webcam EXCEPT !.pending = @ \ {s},
                                !.tracks = @ \cup {s},
                                !.stream = s]
    /\ UNCHANGED <<pipelineVars, now, simulated, classified>>

\* getUserMedia rejects: the catch block of setupCamera calls
\* stopDetection().
GetUserMediaRejects ==
  \E s \in webcam.pending :
    /\ webcam' = [webcam EXCEPT !.pending = @ \ {s}]
    /\ isDetecting' = SetState(FALSE, isDetecting)
    /\ currentPrediction' = SetState(NULL, currentPrediction)
    /\ confidence' = SetState(0, confidence)
    /\ processingRef' = FALSE
    /\ cancelled' = cancelled \cup {c.seq : c \in calls}
    /\ lastOp' = Op("cameraFailed", 0, TRUE, TRUE)
    /\ UNCHANGED <<predictionHistory, modelLoaded, modelLoadingProgress,
                   detectorRef, lastProcessTimeRef, initVars, detectorVars,
                   calls, accepted, rendered, now, simulated, classified>>

WebcamNext ==
  \/ InitializeResolves
  \/ StartDetection
  \/ StopDetection
  \/ Render
  \/ WebcamEffect
  \/ GetUserMediaResolves
  \/ GetUserMediaRejects

WebcamSpec == InitConstructed /\ [][WebcamNext]_vars

\* The capture component of unnamed/part_004, which keeps the stream in
\* streamRef (webcam.stream).  Its effects run after a render in which
\* isDetecting changed: setupCamera calls getUserMedia when detecting with no
\* stream stored, cleanup stops and forgets the stored stream when not
\* detecting.
StreamRefEffect ==
  /\ isMounted
  /\ webcam.deps.rendered.isDetecting # rendered.isDetecting
  /\ (rendered.isDetecting /\ webcam.stream = 0) => webcam.made < MaxStreams
  /\ webcam' =
       IF ~rendered.isDetecting
         THEN [webcam EXCEPT !.deps = WebcamDeps,
                             !.tracks = @ \ {webcam.stream},
                             !.stream = 0,
                             !.requests = 0]
       ELSE IF webcam.stream # 0
         THEN [webcam EXCEPT !.deps = WebcamDeps]
         ELSE [webcam EXCEPT !.deps = WebcamDeps,
                             !.pending = @ \cup {webcam.made + 1},
                             !.made = @ + 1,
                             !.requests = @ + 1]
  /\ UNCHANGED <<pipelineVars, now, simulated, classified>>

\* unnamed/part_004: getUserMedia resolves with a stream, which is stored in
\* streamRef.
GetUserMediaStored ==
  \E s \in webcam.pending :
    /\ webcam' = [webcam EXCEPT !.pending = @ \ {s},
                                !.tracks = @ \cup {s},
                                !.stream = s]
    /\ UNCHANGED <<pipelineVars, now, simulated, classified>>

StreamRefNext ==
  \/ InitializeResolves
  \/ StartDetection
  \/ StopDetection
  \/ Render
  \/ StreamRefEffect
  \/ GetUserMediaStored
  \/ GetUserMediaRejects

StreamRefSpec == InitConstructed /\ [][StreamRefNext]_vars

\* ------------------------------------------------------------ classifier
\* The outputs of the two-unit softmax layer, percent.
Percents == 0..100

\* Lines 166-178 of detectGesture applied to the output <<p0, 100 - p0>>.
ClassifyOutput ==
  \E p0 \in Percents :
    /\ classified' = [predictionData |-> <<p0, 100 - p0>>,
                      maxIndex |-> MaxIndex(<<p0, 100 - p0>>),
                      result |-> Classify(p0)]
    /\ UNCHANGED <<pipelineVars, now, simulated, webcam>>

ClassifySpec == InitConstructed /\ [][ClassifyOutput]_vars

\* ---------------------------------------------------- simulated detector
\* The detector of unnamed/part_008, which makes its predictions up.
\* Capacity of gestureSequence, the share of it a label needs to be promoted
\* (percent), the confidence bonus and cap of a promoted label and the
\* threshold of a returned result (percent).
MAX_GESTURES == 5
MAJORITY_PERCENT == 60
CONSISTENCY_BONUS == 10
CONFIDENCE_CAP == 95
SIMULATED_THRESHOLD == 60

\* Samples of Math.random() and of Math.sin(currentTime / 3000) * 0.5 + 0.5,
\* percent.
RandomFactors == {0, 30, 31, 99}
Variations == {60, 61}

\* Math.ceil(n * p / 100).
CeilPercent(n, p) == (n * p + 99) \div 100

\* Number of occurrences of gesture g in seq.
Count(seq, g) == Cardinality({i \in DOMAIN seq : seq[i] = g})

\* getMostCommonGesture with the comparison of the counts inverted: the
\* less common gesture is reported.
GetMostCommonGestureLeast(seq) ==
  IF seq = <<>> THEN -1
  ELSE LET maxCount == Max(Count(seq, 0), Count(seq, 1))
           mostCommon == IF Count(seq, 1) > Count(seq, 0) THEN 0 ELSE 1
       IN  IF maxCount >= CeilPercent(Len(seq), MAJORITY_PERCENT)
             THEN mostCommon ELSE -1

\* getMostCommonGesture with a share of 80% for 60%.
GetMostCommonGestureStrict(seq) ==
  IF seq = <<>> THEN -1
  ELSE LET maxCount == Max(Count(seq, 0), Count(seq, 1))
           mostCommon == IF Count(seq, 1) > Count(seq, 0) THEN 1 ELSE 0
       IN  IF maxCount >= CeilPercent(Len(seq), 80)
             THEN mostCommon ELSE -1

\* getMostCommonGesture: the counts are visited in the order of their keys
\* and a count replaces the maximum only if it is greater, so gesture 0 wins
\* a tie.
GetMostCommonGesture(seq) ==
  IF seq = <<>> THEN -1
  ELSE LET maxCount == Max(Count(seq, 0), Count(seq, 1))
           mostCommon == IF Count(seq, 1) > Count(seq, 0) THEN 1 ELSE 0
       IN  IF maxCount >= CeilPercent(Len(seq), MAJORITY_PERCENT)
             THEN mostCommon ELSE -1

\* The raw prediction made up from the two random numbers (lines 52-60).
RawGesture(variation, randomFactor) ==
  IF variation > 60
    THEN [gestureIndex |-> IF randomFactor > 30 THEN 1 ELSE 0,
          confidence |-> 70 + Scale(randomFactor, 25)]
    ELSE [gestureIndex |-> IF randomFactor > 30 THEN 0 ELSE 1,
          confidence |-> 65 + Scale(randomFactor, 30)]

\* gestureSequence.push(g), then shift() if it got longer than MAX_GESTURES.
PushGesture(seq, g) ==
  IF Len(seq) + 1 > MAX_GESTURES THEN Tail(Append(seq, g)) ELSE Append(seq, g)

\* One detectGesture call of the simulated detector.  It has no await, so it
\* runs from its entry to its return in one step.  A "bad" frame has no
\* pixel data: simulateHandDetection throws and the catch block returns null.
SimulatedDetectGesture ==
  \E kind \in FrameKinds, variation \in Variations,
     randomFactor \in RandomFactors :
    LET raw == RawGesture(variation, randomFactor)
        pushed == PushGesture(gestureSequence, raw.gestureIndex)
        mostCommon == GetMostCommonGesture(pushed)
        gestureIndex == IF mostCommon # -1 THEN mostCommon
                        ELSE raw.gestureIndex
        boosted == IF mostCommon # -1
                     THEN Min(raw.confidence + CONSISTENCY_BONUS,
                              CONFIDENCE_CAP)
                     ELSE raw.confidence
    IN
    /\ ~isProcessing
    /\ isProcessing' = FALSE
    /\ IF kind = "hand"
         THEN /\ gestureSequence' = pushed
              /\ lastPredictionTime' = now
              /\ detection' =
                   [kind |-> kind,
                    gestureIndex |-> raw.gestureIndex,
                    confidence |-> raw.confidence,
                    result |-> IF boosted > SIMULATED_THRESHOLD
                                 THEN DetectionResult(labelMap[gestureIndex + 1],
                                                      boosted)
                                 ELSE NoResult]
         ELSE /\ detection' = [NoDetection EXCEPT !.kind = kind]
              /\ UNCHANGED <<gestureSequence, lastPredictionTime>>
    /\ UNCHANGED <<pipelineVars, now, classified, webcam>>

SimulatedNext == Tick \/ SimulatedDetectGesture

SimulatedSpec == InitConstructed /\ [][SimulatedNext]_vars

\* ------------------------------------------------------------------- claims
\* Timestamp of the oldest entry of the History InitLong starts from.
SeedOldest == T0 - THROTTLE_MS * LongEntries

\* Everything but lastOp, and everything but lastOp and isDetecting.
exceptLastOp ==
  <<providerState, providerRefs, initVars, detectorVars, calls, accepted,
    cancelled, rendered, now, simulated, classified, webcam>>
exceptIsDetecting ==
  <<currentPrediction, confidence, predictionHistory, modelLoaded,
    modelLoadingProgress, providerRefs, initVars, detectorVars, calls,
    accepted, cancelled, rendered, now, simulated, classified, webcam>>

SameGestureAt(i) ==
  predictionHistory[i].gesture = predictionHistory[i + 1].gesture

\* C1: any two adjacent History entries with the same gesture have
\* timestamps at least DEDUP_MS apart, in every reachable state (after any
\* sequence of startDetection, stopDetection, processFrame and clearHistory,
\* evictions of the oldest entry included).
C1_DedupInvariant ==
  \A i \in 1..(Len(predictionHistory) - 1) :
    SameGestureAt(i) =>
      predictionHistory[i + 1].timestamp - predictionHistory[i].timestamp >= DEDUP_MS

\* C1 witness: a full History whose oldest seeded entry has been evicted and
\* which holds two adjacent entries with the same gesture.
C1_Witness ==
  /\ Len(predictionHistory) = MAX_HISTORY
  /\ predictionHistory[1].timestamp > SeedOldest
  /\ \E i \in 1..(MAX_HISTORY - 1) : SameGestureAt(i)

\* C2: single-flight.  At most one detectGesture call started by processFrame
\* is pending at any time.
C2_SingleFlight == Cardinality(calls) <= 1

\* C3: late results are discarded.  When a classification that was pending
\* while stopDetection was called completes, the History, currentPrediction
\* and confidence do not change.
C3_LateResultDiscarded ==
  [][\A c \in calls :
       (c.seq \in cancelled /\ ~\E d \in calls' : d.seq = c.seq)
         => UNCHANGED <<predictionHistory, currentPrediction, confidence>>]_vars

\* C4: throttle by drop.  A classification attempt begins only when at least
\* THROTTLE_MS have passed since the previous attempt began, and it records
\* its own start; a frame submitted sooner starts nothing and leaves nothing
\* behind for later.
C4_ThrottleByDrop ==
  [][/\ accepted' # accepted =>
          /\ accepted' = accepted + 1
          /\ now - lastProcessTimeRef >= THROTTLE_MS
          /\ lastProcessTimeRef' = now
     /\ (ProcessFrame /\ now - lastProcessTimeRef < THROTTLE_MS) =>
          UNCHANGED exceptLastOp]_vars

\* C4 witness: a frame was dropped for the throttle alone, after an accepted
\* frame.
C4_Witness ==
  /\ lastOp = Op("processFrame", 0, FALSE, FALSE)
  /\ accepted >= 1
  /\ detectorRef /\ rendered.isDetecting /\ rendered.modelLoaded
  /\ ~processingRef
  /\ now - lastProcessTimeRef < THROTTLE_MS

\* A step in which the mounted provider applies a result that is no
\* duplicate of the newest entry of a full History.
AppendsAtCapacity ==
  /\ isMounted
  /\ lastOp' # lastOp /\ lastOp'.op = "finish" /\ lastOp'.flag
  /\ Len(predictionHistory) = MAX_HISTORY
  /\ \/ predictionHistory[MAX_HISTORY].gesture # currentPrediction'
     \/ now - predictionHistory[MAX_HISTORY].timestamp >= DEDUP_MS

\* C5: the History never holds more than MAX_HISTORY entries, and an append
\* to a full History drops exactly the oldest entry, keeps the others in
\* their order and puts the new entry last.
C5_HistoryBounded ==
  /\ Len(predictionHistory) <= MAX_HISTORY
  /\ [][/\ Len(predictionHistory') <= MAX_HISTORY
        /\ (/\ Len(predictionHistory) = MAX_HISTORY
            /\ predictionHistory' # predictionHistory
            /\ predictionHistory' # <<>>) =>
             /\ Len(predictionHistory') = MAX_HISTORY
             /\ SubSeq(predictionHistory', 1, MAX_HISTORY - 1) = Tail(predictionHistory)
             /\ predictionHistory'[MAX_HISTORY].timestamp = now
        /\ AppendsAtCapacity =>
             predictionHistory' =
               Append(Tail(predictionHistory),
                      Prediction(currentPrediction', confidence', now))]_vars

\* C5 witness: a full History after an append evicted the oldest seeded
\* entry.
C5_Witness ==
  /\ Len(predictionHistory) = MAX_HISTORY
  /\ predictionHistory[1].timestamp > SeedOldest
  /\ predictionHistory[MAX_HISTORY].timestamp >= T0

\* C6: the sequence window holds between 0 and SEQUENCE_LENGTH vectors
\* whenever detectGesture has returned or waits at an await, after any
\* detectGesture and dispose calls.
C6_WindowBounded ==
  Len(sequenceBuffer) >= 0 /\ Len(sequenceBuffer) <= SEQUENCE_LENGTH

\* C6 witness: a full window from which a push has shifted out a vector.
C6_Witness ==
  /\ Len(sequenceBuffer) = SEQUENCE_LENGTH
  /\ sequenceBuffer[SEQUENCE_LENGTH].frame >= 1
  /\ sequenceBuffer[1].frame > 2 - SEQUENCE_LENGTH

\* C7: isDetecting implies modelLoaded in every state; isDetecting becomes
\* true only in a state with modelLoaded and an installed detector; and a
\* startDetection call while initialization is pending or has failed changes
\* no state.
C7_StartOnlyWhenReady ==
  /\ isDetecting => modelLoaded
  /\ [][/\ isDetecting' => modelLoaded'
        /\ (~isDetecting /\ isDetecting') => (modelLoaded /\ detectorRef)
        /\ (StartDetection /\ initialize # "resolved") =>
             UNCHANGED exceptLastOp]_vars

\* C7 witness: startDetection was called after a failed initialization.
C7_Witness ==
  /\ lastOp.op = "startDetection"
  /\ ~lastOp.flag
  /\ initialize = "rejected"
  /\ ~isDetecting

\* C8: startDetection is idempotent.  A call from Ready changes isDetecting
\* only, and a call while already detecting changes nothing, so two calls in
\* a row leave the state one call leaves.
C8_StartIdempotent ==
  [][StartDetection =>
       IF isDetecting THEN UNCHANGED exceptLastOp
                      ELSE UNCHANGED exceptIsDetecting]_vars

\* C8 witness: an accepted startDetection call made while already detecting,
\* with a classification pending.
C8_Witness ==
  /\ lastOp.op = "startDetection"
  /\ lastOp.flag
  /\ lastOp.detecting
  /\ isMounted
  /\ isDetecting
  /\ calls # {}

\* C9: stopDetection on the mounted provider sets isDetecting to false,
\* currentPrediction to null and confidence to 0, and leaves the History,
\* modelLoaded and modelLoadingProgress unchanged.
C9_StopEffect ==
  [][(StopDetection /\ isMounted) =>
       /\ isDetecting' = FALSE
       /\ currentPrediction' = NULL
       /\ confidence' = 0
       /\ UNCHANGED <<predictionHistory, modelLoaded, modelLoadingProgress>>]_vars

\* C9 witness: stopDetection has run and the History still has entries.
C9_Witness ==
  /\ lastOp.op = "stopDetection"
  /\ isMounted
  /\ ~isDetecting
  /\ Len(predictionHistory) > 0

FrameOps == {"processFrame", "extracted", "finish"}

C11_ProgressMonotone ==
  /\ [](modelLoadingProgress >= 0 /\ modelLoadingProgress <= PROGRESS_DONE)
  /\ [][(initialize = "pending" /\ initialize' = "pending") =>
          modelLoadingProgress' >= modelLoadingProgress]_vars

\* C12: once initialization has failed, the progress of the mounted provider
\* is 0 and stays 0.
C12_FailedProgressStaysZero ==
  (initialize = "rejected" /\ isMounted) => modelLoadingProgress = 0

\* C13: the step that sets modelLoaded sets modelLoadingProgress to
\* PROGRESS_DONE, and modelLoaded implies modelLoadingProgress = PROGRESS_DONE
\* in every state: no later timer tick changes it.
C13_LoadedMeansDone ==
  /\ [](modelLoaded => modelLoadingProgress = PROGRESS_DONE)
  /\ [][(~modelLoaded /\ modelLoaded') =>
          /\ modelLoadingProgress' = PROGRESS_DONE
          /\ ~progressInterval']_vars

\* C13 witness: initialization succeeded while the simulated progress was
\* still under way, and time has passed since.
C13_Witness ==
  /\ modelLoaded
  /\ isMounted
  /\ initialize = "resolved"
  /\ modelLoadingProgress = PROGRESS_DONE
  /\ lastOp = Op("initialized", 0, TRUE, FALSE)
  /\ now > T0

\* C14: after initialization has rejected, modelLoaded stays false, no
\* detector is installed, isDetecting stays false, initialization is never
\* started again, and every startDetection and processFrame call changes no
\* state.
C14_FailedStaysUninitialized ==
  /\ [](initialize = "rejected" => (~modelLoaded /\ ~detectorRef /\ ~isDetecting))
  /\ [][initialize = "rejected" =>
          /\ initialize' = "rejected"
          /\ (StartDetection \/ ProcessFrame) => UNCHANGED exceptLastOp]_vars

\* C14 witness: a frame was submitted, and dropped, after a failed
\* initialization.
C14_Witness ==
  /\ initialize = "rejected"
  /\ isMounted
  /\ lastOp = Op("processFrame", 0, FALSE, FALSE)
  /\ now > T0

HandlesNoDetection ==
  /\ isMounted
  /\ lastOp' # lastOp
  /\ lastOp'.op \in FrameOps
  /\ lastOp'.seq >= 1
  /\ ~\E c \in calls' : c.seq = lastOp'.seq
  /\ ~(lastOp'.op = "finish" /\ lastOp'.flag)

\* C16: decay safety.  Confidence is never negative, and the handling of a
\* frame without a qualifying result never raises it.
C16_DecaySafe ==
  /\ [](confidence >= 0)
  /\ [][HandlesNoDetection =>
          (confidence' <= confidence /\ confidence' >= 0)]_vars

\* C16 witness: MaxFrames frames in a row were handled without a detection
\* and lowered a confidence that is still positive.
C16_Witness ==
  /\ accepted >= MaxFrames
  /\ calls = {}
  /\ lastOp.op \in {"processFrame", "extracted"}
  /\ lastOp.seq = accepted
  /\ confidence > 0
  /\ confidence < rendered.confidence
  /\ predictionHistory[1].timestamp = T0 - THROTTLE_MS

\* C17: decay liveness.  Frames without a qualifying result bring the
\* confidence to exactly 0 after finitely many of them: on the finite grid of
\* confidence values this is to say that each such frame lowers a positive
\* confidence.
C17_DecayReachesZero ==
  [][(HandlesNoDetection /\ rendered.isDetecting /\ confidence > 0) =>
       confidence' < confidence]_vars

\* C18: label clearing.  When the handling of a frame without a detection
\* leaves a confidence below CLEAR_THRESHOLD, currentPrediction is null after
\* it.
C18_LabelCleared ==
  [][(HandlesNoDetection /\ confidence' < CLEAR_THRESHOLD) =>
       currentPrediction' = NULL]_vars

\* C19: clearHistory on the mounted provider empties the History and changes
\* nothing else: not currentPrediction, confidence, isDetecting, the
\* in-flight flag, the time of the last accepted frame or the detector's
\* window, with or without a classification in flight.
C19_ClearHistoryOnly ==
  [][(ClearHistory /\ isMounted) =>
       /\ predictionHistory' = <<>>
       /\ UNCHANGED <<isDetecting, currentPrediction, confidence, modelLoaded,
                      modelLoadingProgress, providerRefs, initVars,
                      detectorVars, calls, accepted, cancelled, rendered,
                      now>>]_vars

\* C19 witness: clearHistory ran with a classification in flight and a live
\* prediction.
C19_Witness ==
  /\ lastOp.op = "clearHistory"
  /\ isMounted
  /\ predictionHistory = <<>>
  /\ calls # {}
  /\ confidence > 0
  /\ currentPrediction # NULL
  /\ Len(sequenceBuffer) = SEQUENCE_LENGTH

\* C20: as long as every frame processed by an initialized detector showed no
\* hand (its window is still empty), the History is empty and
\* currentPrediction is null.
C20_NoHandNoDetection ==
  (isInitialized /\ sequenceBuffer = <<>>) =>
    (predictionHistory = <<>> /\ currentPrediction = NULL)

\* C20 witness: a fresh session has processed MaxFrames frames without a hand.
C20_Witness ==
  /\ isInitialized
  /\ isDetecting
  /\ sequenceBuffer = <<>>
  /\ accepted >= MaxFrames
  /\ calls = {}
  /\ lastOp.op \in {"processFrame", "extracted"}
  /\ lastOp.seq = accepted
  /\ predictionHistory = <<>>

\* C21: after stopDetection no processFrame call starts a classification
\* until startDetection is accepted again: while isDetecting is false no
\* frame is accepted, whichever callback submits it.
C21_NoStartAfterStop ==
  [][~isDetecting => accepted' = accepted]_vars

\* C22: results are applied in submission order.  When the handling of an
\* accepted frame completes, no frame accepted before it is still waiting for
\* its result.
C22_ResultsInOrder ==
  [][\A c \in calls :
       (c.isDetecting /\ ~\E d \in calls' : d.seq = c.seq) =>
         \A d \in calls' : d.isDetecting => d.seq > c.seq]_vars

\* C23: the timestamps of the History entries are non-decreasing from the
\* oldest entry to the newest, in every reachable state.
C23_HistoryInTimeOrder ==
  \A i \in 1..(Len(predictionHistory) - 1) :
    predictionHistory[i].timestamp <= predictionHistory[i + 1].timestamp

\* C23 witness: the two newest entries were both appended in the explored
\* window, at different times.
C23_Witness ==
  /\ Len(predictionHistory) >= 2
  /\ predictionHistory[Len(predictionHistory) - 1].timestamp >= T0
  /\ predictionHistory[Len(predictionHistory)].timestamp >
       predictionHistory[Len(predictionHistory) - 1].timestamp

\* C24: stopDetection leaves the detector's sequence window empty.
C24_StopClearsWindow ==
  [][StopDetection => sequenceBuffer' = <<>>]_vars

\* C25: once the detector is disposed its window stays empty and no
\* detectGesture call returns a result, calls that were waiting when dispose
\* ran included; and every processFrame call on the unmounted provider
\* changes no state.
C25_DisposedIsInert ==
  /\ [](~isInitialized => sequenceBuffer = <<>>)
  /\ [][/\ (~isInitialized /\ lastOp' # lastOp /\ lastOp'.op = "finish") =>
             ~lastOp'.flag
        /\ (~isMounted /\ ProcessFrame) => UNCHANGED exceptLastOp]_vars

\* A step in which the mounted provider applies a qualifying result of a call
\* whose callback saw isDetecting.
AppliesResult ==
  /\ isMounted
  /\ lastOp' # lastOp /\ lastOp'.op = "finish" /\ lastOp'.flag
  /\ \E c \in calls : c.seq = lastOp'.seq /\ c.isDetecting

\* The newest entry of the History.
LastEntry == predictionHistory[Len(predictionHistory)]

\* The History after the entry for the result just applied was appended.
Appended ==
  SliceLast(Append(predictionHistory,
                   Prediction(currentPrediction', confidence', now)),
            MAX_HISTORY)

\* C26 as stated: a qualifying result is appended only if the History is
\* empty, or its gesture differs from the newest entry's, or more than
\* DEDUP_MS have passed since the newest entry; otherwise the History is
\* unchanged.  The first qualifying result of an empty History is appended.
C26_AppendRuleExceeds ==
  [][AppliesResult =>
       IF \/ predictionHistory = <<>>
          \/ LastEntry.gesture # currentPrediction'
          \/ now - LastEntry.timestamp > DEDUP_MS
         THEN predictionHistory' = Appended
         ELSE predictionHistory' = predictionHistory]_vars

\* C26 amended: as C26, with "DEDUP_MS or more have passed" for "more than
\* DEDUP_MS have passed".
C26_AppendRule ==
  [][AppliesResult =>
       IF \/ predictionHistory = <<>>
          \/ LastEntry.gesture # currentPrediction'
          \/ now - LastEntry.timestamp >= DEDUP_MS
         THEN predictionHistory' = Appended
         ELSE predictionHistory' = predictionHistory]_vars

\* C26 witness: a result was appended exactly DEDUP_MS after the newest
\* entry, which has the same gesture.
C26_Witness ==
  /\ lastOp.op = "finish" /\ lastOp.flag
  /\ Len(predictionHistory) >= 2
  /\ LastEntry.gesture = predictionHistory[Len(predictionHistory) - 1].gesture
  /\ LastEntry.timestamp =
       predictionHistory[Len(predictionHistory) - 1].timestamp + DEDUP_MS
  /\ LastEntry.timestamp = now

\* C27: every started classification finishes.  A call waiting for landmarks
\* has its listener registered and an image outstanding at MediaPipe; without
\* them nothing ever resolves its promise.
C27_EveryCallFinishes ==
  \A c \in calls :
    c.stage = "extract" => (onResults = c.seq /\ sent # <<>>)

\* C28: fixed-shape classifier input.  Whenever a vector is pushed and the
\* window is still shorter than SEQUENCE_LENGTH, the classifier is run (on
\* the window padded to SEQUENCE_LENGTH): the call goes on to wait for the
\* prediction.
C28_ShortWindowClassified ==
  [][(/\ sequenceBuffer' # sequenceBuffer
      /\ Len(sequenceBuffer') >= 1
      /\ Len(sequenceBuffer') < SEQUENCE_LENGTH) =>
       \E c \in calls' : c.seq = lastOp'.seq /\ c.stage = "predict"]_vars

\* C29: majority promotion in the simulated detector.  Whenever, after the
\* raw label is pushed, gestureSequence holds a label at least 3 times,
\* detectGesture returns that label with confidence
\* min(raw confidence + 0.1, 0.95); and gestureSequence never holds more than
\* 5 labels.
C29_MajorityPromoted ==
  /\ [](Len(gestureSequence) <= 5)
  /\ [][\A g \in 0..1 :
          (/\ detection'.kind = "hand"
           /\ gestureSequence' = PushGesture(gestureSequence,
                                             detection'.gestureIndex)
           /\ Count(gestureSequence', g) >= 3) =>
            detection'.result =
              DetectionResult(labelMap[g + 1],
                              Min(detection'.confidence + 10, 95))]_vars

\* C29 witness: a full buffer in which a label has support exactly 3 and
\* the raw label just pushed is the other one, so the promotion replaced it.
C29_Witness ==
  /\ detection.kind = "hand"
  /\ Len(gestureSequence) = MAX_GESTURES
  /\ gestureSequence[MAX_GESTURES] = detection.gestureIndex
  /\ Count(gestureSequence, 1 - detection.gestureIndex) = 3
  /\ detection.result.gesture = labelMap[(1 - detection.gestureIndex) + 1]

\* C30: a rejected processFrame call (no detector, not detecting, model not
\* loaded, a classification in flight, or less than THROTTLE_MS since the
\* last accepted frame) changes no state, and in particular leaves nothing
\* queued.
C30_RejectedChangesNothing ==
  [][(/\ ProcessFrame
      /\ \/ ~detectorRef
         \/ ~rendered.isDetecting
         \/ ~rendered.modelLoaded
         \/ processingRef
         \/ now - lastProcessTimeRef < THROTTLE_MS) =>
       UNCHANGED exceptLastOp]_vars

\* C30 witness: a frame was rejected only because a classification was in
\* flight.
C30_Witness ==
  /\ lastOp = Op("processFrame", 0, FALSE, FALSE)
  /\ detectorRef /\ rendered.isDetecting /\ rendered.modelLoaded
  /\ processingRef
  /\ calls # {}
  /\ now - lastProcessTimeRef >= THROTTLE_MS

\* C31: strict FIFO window.  The window only changes by being emptied
\* (dispose) or by a push: the vector just extracted, of a frame newer than
\* every frame in the window, is appended at the tail and, if the window then
\* exceeds SEQUENCE_LENGTH, the oldest vector is removed.  Hence the window
\* always holds the most recent vectors in extraction order, oldest first.
C31_StrictFifo ==
  /\ [](\A i \in 1..(Len(sequenceBuffer) - 1) :
          sequenceBuffer[i].frame < sequenceBuffer[i + 1].frame)
  /\ [][sequenceBuffer' # sequenceBuffer =>
          \/ sequenceBuffer' = <<>>
          \/ LET v == sequenceBuffer'[Len(sequenceBuffer')]
             IN  /\ \A i \in 1..Len(sequenceBuffer) :
                      sequenceBuffer[i].frame < v.frame
                 /\ sequenceBuffer' =
                      SliceLast(Append(sequenceBuffer, v), SEQUENCE_LENGTH)]_vars

\* C31 witness: two frames were pushed in turn into a window that was one
\* short of full; the second push evicted the oldest vector.
C31_Witness ==
  /\ Len(sequenceBuffer) = SEQUENCE_LENGTH
  /\ sequenceBuffer[SEQUENCE_LENGTH].frame = 2
  /\ sequenceBuffer[SEQUENCE_LENGTH - 1].frame = 1
  /\ sequenceBuffer[1].frame = 3 - SEQUENCE_LENGTH

\* C32: unmount during loading.  Once the provider is unmounted with
\* initialize() still pending, the detector is never installed, modelLoaded
\* is never set and no progress value is published; when initialize()
\* resolves the new detector is disposed.
C32_UnmountedWhileLoading ==
  /\ []((~isMounted /\ ~modelLoaded) => ~detectorRef)
  /\ [][~isMounted =>
          /\ modelLoaded' = modelLoaded
          /\ modelLoadingProgress' = modelLoadingProgress
          /\ detectorRef' = FALSE
          /\ (initialize = "pending" /\ initialize' = "resolved") =>
               (~isInitialized' /\ ~model' /\ ~hands' /\ sequenceBuffer' = <<>>)]_vars

\* C32 witness: initialize() resolved after the provider was unmounted while
\* loading.
C32_Witness ==
  /\ ~isMounted
  /\ initialize = "resolved"
  /\ lastOp = Op("initialized", 0, FALSE, FALSE)
  /\ ~modelLoaded /\ ~detectorRef /\ ~isInitialized
  /\ modelLoadingProgress < PROGRESS_DONE

\* C35: a detectGesture call on a frame in which no hand is found returns
\* null (the call is over and nothing was detected) and leaves the sequence
\* window as it was, on the fallback path and on the MediaPipe path.
C35_NoHandLeavesWindow ==
  [][/\ ((\E t \in BOOLEAN : ProcessFrameOf("nohand", t)) /\ ~hands
           /\ accepted' # accepted) =>
          /\ sequenceBuffer' = sequenceBuffer
          /\ ~\E c \in calls' : c.seq = accepted'
          /\ predictionHistory' = predictionHistory
     /\ (/\ HandsResults
         /\ Head(sent).kind = "nohand"
         /\ \E c \in calls : c.seq = onResults /\ c.stage = "extract") =>
          /\ sequenceBuffer' = sequenceBuffer
          /\ ~\E c \in calls' : c.seq = onResults
          /\ predictionHistory' = predictionHistory]_vars

\* C35 witness: after a frame without a hand the window holds, side by
\* side, the vectors of two frames that were not adjacent in time.
C35_Witness ==
  /\ accepted = 2
  /\ Len(sequenceBuffer) >= 2
  /\ sequenceBuffer[Len(sequenceBuffer)].frame = 2
  /\ sequenceBuffer[Len(sequenceBuffer) - 1].frame = 0

\* C36: with the two labels, once gestureSequence holds 5 labels one of them
\* has a strict majority, and the label detectGesture returns for a frame
\* with a hand is that majority of the last 5 raw labels, never the raw
\* label of the frame when the two differ.
C36_AlwaysSmoothed ==
  /\ [](Len(gestureSequence) = 5 =>
          \E g \in 0..1 : Count(gestureSequence, g) >= 3)
  /\ [][(/\ detection'.kind = "hand"
         /\ gestureSequence' = PushGesture(gestureSequence,
                                           detection'.gestureIndex)
         /\ Len(gestureSequence') = 5) =>
          /\ detection'.result.gesture # NULL
          /\ \A g \in 0..1 :
               detection'.result.gesture = labelMap[g + 1] =>
                 Count(gestureSequence', g) > Count(gestureSequence', 1 - g)]_vars

\* C36 witness: the buffer is full, the raw label of the last frame was
\* thankyou and hello, held 4 times, was returned.
C36_Witness ==
  /\ detection.kind = "hand"
  /\ Len(gestureSequence) = 5
  /\ detection.gestureIndex = 1
  /\ gestureSequence[5] = 1
  /\ Count(gestureSequence, 0) = 4
  /\ detection.result.gesture = labelMap[1]

\* C37: arg-max with deterministic tie-break.  The index detectGesture
\* picks holds the highest probability of the classifier output, a returned
\* gesture is the label of that index with that probability as confidence,
\* and when both labels have the same probability index 0 (hello, the first
\* entry of labelMap) is picked.
C37_ArgMaxLowestIndex ==
  classified.predictionData # <<>> =>
    LET d == classified.predictionData
        i == classified.maxIndex
    IN  /\ i \in 1..Len(d)
        /\ \A j \in 1..Len(d) : d[j] <= d[i]
        /\ d[1] = d[2] => i = 1
        /\ classified.result.gesture # NULL =>
             /\ classified.result.gesture = labelMap[i]
             /\ classified.result.confidence = d[i]

\* C37 witness: the classifier gave both labels the same probability.
C37_Witness ==
  /\ classified.predictionData = <<50, 50>>
  /\ classified.maxIndex = 1
  /\ labelMap[classified.maxIndex] = "hello"

\* C33: the camera is acquired once per session.  Between two runs of the
\* camera effect that see isDetecting false, the capture component calls
\* getUserMedia at most once; re-renders caused by storing the stream do not
\* trigger another call.
C33_AcquiredOnce ==
  webcam.requests <= 1

\* C34: the camera is released after a stop.  In every state in which
\* isDetecting is false, the capture component has rendered that state and
\* run its effects, and no getUserMedia call is pending, no acquired stream
\* has running tracks; a stream that arrives after the stop is stopped.
C34_ReleasedAfterStop ==
  (/\ ~isDetecting
   /\ ~rendered.isDetecting
   /\ ~webcam.deps.rendered.isDetecting
   /\ webcam.pending = {}) =>
    webcam.tracks = {}

\* C38: every feature vector in the sequence window has exactly
\* LANDMARK_COUNT = 42 values, each within [0, 1], whether it came from
\* MediaPipe or from the fallback extraction.
C38_VectorsInRange ==
  \A i \in 1..Len(sequenceBuffer) :
    /\ sequenceBuffer[i].length = 42
    /\ sequenceBuffer[i].low >= 0
    /\ sequenceBuffer[i].high <= 100

====
